---- MODULE Spec2Model ----
(***************************************************************************)
(* FEC chunk reception / generation sessions of src/fec.h and src/fec.cpp: *)
(* FECDecoder, FECEncoder, BlockChunkRecvdTracker and BuildFECChunks.      *)
(*                                                                         *)
(* Sizes are scaled: a chunk holds FEC_CHUNK_SIZE model bytes (1152 in the *)
(* source) and the threshold coder serves up to CM256_MAX_CHUNKS data      *)
(* chunks (27 in the source).  A byte is an element of the prime field the *)
(* coding primitive computes in.                                           *)
(***************************************************************************)
EXTENDS Integers, Naturals, Sequences, FiniteSets, TLC

\* ------------------------------------------------------------------ bounds
FEC_CHUNK_SIZE == 2      \* bytes per chunk (scaled from 1152)
CM256_MAX_CHUNKS == 2    \* largest data chunk count of the threshold coder (scaled from 27)
MaxChunkCount == 3       \* largest data chunk count of a modelled object
MaxChunksSent == 4       \* largest number of chunk ids of a session
MaxSlots == 2            \* largest number of encoder output slots
MaxCalls == 3            \* calls of one tracker operation per id

NULL == "NULL"

\* the chunk ids of the model: data chunks first, repair chunks after them
ChunkIds == 0..(MaxChunksSent + MaxSlots - 1)

\* --------------------------------------------------------- byte arithmetic
IsPrime(p) == p > 1 /\ \A d \in 2..(p - 1) : p % d # 0

\* The field of the coding primitive: the smallest prime above every chunk id.
FieldPrime == CHOOSE p \in (MaxChunksSent + MaxSlots + 1)..(2 * (MaxChunksSent + MaxSlots) + 2) :
                /\ IsPrime(p)
                /\ \A q \in (MaxChunksSent + MaxSlots + 1)..(p - 1) : ~IsPrime(q)

Byte == 0..(FieldPrime - 1)

FMod(a) == ((a % FieldPrime) + FieldPrime) % FieldPrime

\* the inverses of the field, 0 standing for "none"
FInvTable == [a \in Byte |-> IF a = 0 THEN 0
                             ELSE CHOOSE b \in 1..(FieldPrime - 1) : (a * b) % FieldPrime = 1]

FInv(a) == FInvTable[FMod(a)]

DIV_CEIL(a, b) == (a + b - 1) \div b

ZeroChunk == [j \in 1..FEC_CHUNK_SIZE |-> 0]

\* memset(dst + n, 0, FEC_CHUNK_SIZE - n) after n bytes were written
ZeroPad(bytes) == [j \in 1..FEC_CHUNK_SIZE |-> IF j <= Len(bytes) THEN bytes[j] ELSE 0]

\* the i-th FEC_CHUNK_SIZE slice of an object, without padding
Slice(obj, i) == SubSeq(obj, i * FEC_CHUNK_SIZE + 1,
                        IF (i + 1) * FEC_CHUNK_SIZE <= Len(obj)
                          THEN (i + 1) * FEC_CHUNK_SIZE ELSE Len(obj))

\* the i-th data chunk of an object: its slice, the final one zero-padded
DataChunk(obj, i) == ZeroPad(Slice(obj, i))

\* ------------------------------------------------------- coding primitive
\* The primitive is a systematic threshold code: the data chunks are the
\* values at 0..k-1 of a polynomial of degree < k, chunk id x is its value
\* at x, and any k chunks give back every other one by interpolation.
RECURSIVE LagrangeTerm(_, _, _)
LagrangeTerm(xs, xm, x) ==
    IF xs = {} THEN 1
    ELSE LET xn == CHOOSE e \in xs : TRUE
         IN  IF xn = xm THEN LagrangeTerm(xs \ {xn}, xm, x)
             ELSE FMod(FMod((x - xn) * FInv(xm - xn)) * LagrangeTerm(xs \ {xn}, xm, x))

\* the Lagrange coefficients, per set of points xs, point xm of it and x
LagrangeTable ==
    [xs \in SUBSET ChunkIds |->
       [xm \in ChunkIds |->
          [x \in ChunkIds |-> IF xm \in xs THEN LagrangeTerm(xs, xm, x) ELSE 0]]]

RECURSIVE InterpSum(_, _, _, _)
InterpSum(rest, xs, ys, x) ==
    IF rest = {} THEN 0
    ELSE LET xm == CHOOSE e \in rest : TRUE
         IN  FMod(ys[xm] * LagrangeTable[xs][xm][x] + InterpSum(rest \ {xm}, xs, ys, x))

\* value at x of the polynomial through the points (xm, ys[xm]), xm in xs
Interp(xs, ys, x) == InterpSum(xs, xs, ys, x)

\* block x computed from the blocks held for the ids in ids
BlockFrom(ids, blocks, x) ==
    [j \in 1..FEC_CHUNK_SIZE |-> Interp(ids, [i \in ids |-> blocks[i][j]], x)]

\* the chunk the primitive derives for chunk id x from an object
EncodeChunk(obj, x) ==
    LET k == DIV_CEIL(Len(obj), FEC_CHUNK_SIZE)
    IN  IF k = 0 THEN ZeroChunk
        ELSE IF x < k THEN DataChunk(obj, x)
        ELSE BlockFrom(0..(k - 1), [i \in 0..(k - 1) |-> DataChunk(obj, i)], x)

\* ---------------------------------------------------------------- state
VARIABLES
    data,               \* the object the session is about (FECEncoder::data)
    chunk_count,        \* FECDecoder: number of data chunks
    chunks_recvd,       \* FECDecoder: chunks counted as received
    chunks_sent,        \* FECDecoder: number of chunk ids of the session
    decodeComplete,     \* FECDecoder: completion flag
    chunk_recvd_flags,  \* FECDecoder: per chunk id, whether it was provided
    tmp_chunk,          \* FECDecoder: the scratch chunk GetDataPtr returns
    state,              \* FECDecoder: handle of the coding primitive, or NULL
    last,               \* the latest call on the session and what it returned
    data_chunk_recvd_flags, \* BlockChunkRecvdTracker: flags of the data chunk ids
    fec_chunks_recvd,   \* BlockChunkRecvdTracker: the set of the other chunk ids
    trk_calls,          \* per chunk id, the CheckPresentAndMarkRecvd calls made
    trk_last,           \* the latest call on the tracker and what it returned
    fec_chunks,         \* FECEncoder: the caller's output slots, payloads and ids
    wirehair_encoder,   \* FECEncoder: handle of the coding primitive, or NULL
    enc_last,           \* the latest call on the Encode Session and what it returned
    dec_alive,          \* the Decode Session is constructed and not destroyed
    enc_alive,          \* the Encode Session: "none", "alive" or "destroyed"
    owns_file,          \* FECDecoder: it deletes the backing file when destroyed
    enc_owns_file,      \* the Encode Session was handed the backing file
    file_exists,        \* the backing file of the Decode Session is on disk
    file_removals,      \* how often the backing file was deleted
    enc_entry,          \* the public operation that made the call of enc_last
    bfc,                \* BuildFECChunks: its loop index i and what it returned
    other,              \* a second Decode Session, the target of operator=
    handles             \* the decoding handles: who holds which, how often freed

decVars == <<chunk_count, chunks_recvd, chunks_sent, decodeComplete,
             chunk_recvd_flags, tmp_chunk, state>>

trkVars == <<data_chunk_recvd_flags, fec_chunks_recvd, trk_calls, trk_last>>

encVars == <<fec_chunks, wirehair_encoder, enc_last, enc_entry>>

lifeVars == <<dec_alive, enc_alive, owns_file, enc_owns_file, file_exists, file_removals>>

\* the second Decode Session and the handles of the coding primitive
moveVars == <<other, handles>>

vars == <<data, decVars, last, trkVars, encVars, lifeVars, bfc, moveVars>>

\* what the operations of a Decode Session leave alone
notDecoder == <<data, trkVars, encVars, lifeVars, bfc, moveVars>>

\* what the operations of a tracker leave alone
notTracker == <<data, decVars, last, encVars, lifeVars, bfc, moveVars>>

\* what the operations of an Encode Session leave alone
notEncoder == <<data, decVars, last, trkVars, lifeVars, bfc, moveVars>>

\* ------------------------------------------------------------- objects
\* An object of n bytes; its bytes are non-zero, so padding is visible.
MakeObject(n) == [j \in 1..n |-> (j % (FieldPrime - 1)) + 1]

ObjectPool == {MakeObject(n) : n \in 0..(MaxChunkCount * FEC_CHUNK_SIZE)}

\* a chunk that differs from c in its first byte
Corrupt(c) == [c EXCEPT ![1] = (c[1] + 1) % FieldPrime]

\* the chunks a sender or a faulty transport may hand in under chunk id x
ChunkInputs(x) == {EncodeChunk(data, x), Corrupt(EncodeChunk(data, x))}

NoCall == [op |-> "none", id |-> 0, chunk |-> ZeroChunk, ret |-> TRUE, codec |-> "none",
           rep |-> 0]

\* ---------------------------------------------- decoding primitive handle
wh256_decoder_init(data_size) ==
    [size |-> data_size, n |-> 0, ids |-> {}, blocks |-> [i \in ChunkIds |-> ZeroChunk]]

\* The outcomes of handing one chunk to the primitive: it is taken in and
\* the primitive reports "complete" (ret 0) or "more" (ret 1), or, for a
\* chunk that is not the one the sender derived, it may be refused (ret 2).
\* Up to CM256_MAX_CHUNKS data chunks the k-th chunk completes; above it
\* completion is the primitive's choice from the k-th chunk on.
wh256_decoder_read(st, id, chunk) ==
    LET k    == DIV_CEIL(st.size, FEC_CHUNK_SIZE)
        in   == [st EXCEPT !.n = st.n + 1, !.ids = st.ids \cup {id}, !.blocks[id] = chunk]
        rets == IF in.n < k THEN {1}
                ELSE IF k <= CM256_MAX_CHUNKS THEN {0}
                ELSE {0, 1}
    IN  {[state |-> in, ret |-> r, codec |-> IF r = 0 THEN "complete" ELSE "more"] : r \in rets}
        \cup (IF chunk # EncodeChunk(data, id)
                THEN {[state |-> st, ret |-> 2, codec |-> "reject"]} ELSE {})

\* Block i as the primitive rebuilds it: ret is 0 and block the rebuilt
\* chunk when it holds enough distinct chunks, non-zero otherwise.
wh256_decoder_reconstruct_block(st, i) ==
    IF Cardinality(st.ids) >= DIV_CEIL(st.size, FEC_CHUNK_SIZE)
      THEN [ret |-> 0, block |-> BlockFrom(st.ids, st.blocks, i)]
      ELSE [ret |-> 1, block |-> ZeroChunk]

\* ----------------------------------------------------------- FECDecoder
\* FECDecoder::FECDecoder(data_size, chunks_provided, prng_seed)
FECDecoderInit(data_size, chunks_provided) ==
    /\ chunk_count = DIV_CEIL(data_size, FEC_CHUNK_SIZE)
    /\ chunks_recvd = 0
    /\ chunks_sent = chunks_provided
    /\ decodeComplete = FALSE
    /\ chunk_recvd_flags = [i \in 0..(chunks_provided - 1) |-> FALSE]
    /\ tmp_chunk = ZeroChunk
    /\ state = IF DIV_CEIL(data_size, FEC_CHUNK_SIZE) < 2 THEN NULL
               ELSE wh256_decoder_init(data_size)

\* the record of a ProvideChunk call; rep counts the ProvideChunk calls made
\* in a row with this chunk id (1, or 2 for two and more)
ProvideChunkCall(chunk, chunk_id, codec) ==
    [op |-> "ProvideChunk", id |-> chunk_id, chunk |-> chunk, ret |-> TRUE, codec |-> codec,
     rep |-> IF last.op = "ProvideChunk" /\ last.id = chunk_id THEN 2 ELSE 1]

\* ProvideChunkSkips that forgets the received flags
ProvideChunkSkipsCompleteOnly(chunk_id) == decodeComplete

\* ProvideChunkSkips that forgets the completion flag
ProvideChunkSkipsSeenOnly(chunk_id) == chunk_recvd_flags[chunk_id]

\* ProvideChunk returns at once: the session is complete or the id was seen
ProvideChunkSkips(chunk_id) == decodeComplete \/ chunk_recvd_flags[chunk_id]

\* ProvideChunkMark that counts the chunk but does not set its flag
ProvideChunkMarkCountOnly(chunk_id) ==
    /\ chunk_recvd_flags' = chunk_recvd_flags
    /\ chunks_recvd' = chunks_recvd + 1

\* ProvideChunkMark that sets the flag of the chunk but does not count it
ProvideChunkMarkFlagOnly(chunk_id) ==
    /\ chunk_recvd_flags' = [chunk_recvd_flags EXCEPT ![chunk_id] = TRUE]
    /\ chunks_recvd' = chunks_recvd

\* chunk_recvd_flags[chunk_id] = true; chunks_recvd++
ProvideChunkMark(chunk_id) ==
    /\ chunk_recvd_flags' = [chunk_recvd_flags EXCEPT ![chunk_id] = TRUE]
    /\ chunks_recvd' = chunks_recvd + 1

\* ProvideChunkTrivial that completes without copying the chunk
ProvideChunkTrivialNoCopy(chunk, chunk_id) ==
    /\ tmp_chunk' = tmp_chunk
    /\ decodeComplete' = TRUE
    /\ last' = ProvideChunkCall(chunk, chunk_id, "none")
    /\ UNCHANGED state

\* chunk_count < 2: the chunk is the object
ProvideChunkTrivial(chunk, chunk_id) ==
    /\ tmp_chunk' = chunk
    /\ decodeComplete' = TRUE
    /\ last' = ProvideChunkCall(chunk, chunk_id, "none")
    /\ UNCHANGED state

\* ProvideChunkCoded with the test of the primitive's result inverted
ProvideChunkCodedInverted(chunk, chunk_id) ==
    \E o \in wh256_decoder_read(state, chunk_id, chunk) :
        /\ state' = o.state
        /\ decodeComplete' = (o.ret # 0)
        /\ last' = ProvideChunkCall(chunk, chunk_id, o.codec)
        /\ UNCHANGED tmp_chunk

\* ProvideChunkCoded that takes every result but "more" for completion
ProvideChunkCodedNotMore(chunk, chunk_id) ==
    \E o \in wh256_decoder_read(state, chunk_id, chunk) :
        /\ state' = o.state
        /\ decodeComplete' = (o.ret # 1)
        /\ last' = ProvideChunkCall(chunk, chunk_id, o.codec)
        /\ UNCHANGED tmp_chunk

\* else if (!wh256_decoder_read(state, chunk_id, chunk)) decodeComplete = true
ProvideChunkCoded(chunk, chunk_id) ==
    \E o \in wh256_decoder_read(state, chunk_id, chunk) :
        /\ state' = o.state
        /\ decodeComplete' = (o.ret = 0)
        /\ last' = ProvideChunkCall(chunk, chunk_id, o.codec)
        /\ UNCHANGED tmp_chunk

\* bool FECDecoder::ProvideChunk(const unsigned char* chunk, size_t chunk_id)
ProvideChunk(chunk, chunk_id) ==
    /\ chunk_id < chunks_sent
    /\ IF ProvideChunkSkips(chunk_id)
         THEN /\ last' = ProvideChunkCall(chunk, chunk_id, "none")
              /\ UNCHANGED decVars
         ELSE /\ ProvideChunkMark(chunk_id)
              /\ IF chunk_count < 2
                   THEN ProvideChunkTrivial(chunk, chunk_id)
                   ELSE ProvideChunkCoded(chunk, chunk_id)
              /\ UNCHANGED <<chunk_count, chunks_sent>>
    /\ UNCHANGED notDecoder

\* bool FECDecoder::HasChunk(size_t chunk_id), for chunk_id < chunks_sent
HasChunk(chunk_id) == decodeComplete \/ chunk_recvd_flags[chunk_id]

\* bool FECDecoder::DecodeReady() const
DecodeReady == decodeComplete

\* the three assertions of GetDataPtr hold for chunk_id
GetDataPtrPermitted(chunk_id) ==
    /\ DecodeReady
    /\ chunk_id < chunk_count
    /\ chunk_count >= 2 => wh256_decoder_reconstruct_block(state, chunk_id).ret = 0

\* the chunk GetDataPtr(chunk_id) returns when it is permitted
GetDataPtrResult(chunk_id) ==
    IF chunk_count >= 2 THEN wh256_decoder_reconstruct_block(state, chunk_id).block
    ELSE tmp_chunk

\* const void* FECDecoder::GetDataPtr(size_t chunk_id)
GetDataPtr(chunk_id) ==
    /\ GetDataPtrPermitted(chunk_id)
    /\ tmp_chunk' = GetDataPtrResult(chunk_id)
    /\ last' = [op |-> "GetDataPtr", id |-> chunk_id, chunk |-> ZeroChunk,
                ret |-> TRUE, codec |-> "none", rep |-> 0]
    /\ UNCHANGED <<chunk_count, chunks_recvd, chunks_sent, decodeComplete,
                   chunk_recvd_flags, state>>
    /\ UNCHANGED notDecoder

\* ----------------------------------------------- BlockChunkRecvdTracker
TrackerIds == 0..MaxChunkCount

\* ChunkIdIsNull: the value that marks an empty place of the set
ChunkIdIsNull(elem) == elem = 0

\* open_hash_set::find_fast, the possible results.  The set cannot tell the
\* null value from an empty place, so for it either answer may come.
find_fast(set, key) == IF ChunkIdIsNull(key) THEN BOOLEAN ELSE {key \in set}

\* open_hash_set::insert, the possible outcomes: the set afterwards and
\* whether the key was added
insert(set, key) ==
    IF ChunkIdIsNull(key) THEN {[set |-> set, second |-> b] : b \in BOOLEAN}
    ELSE {[set |-> set \cup {key}, second |-> key \notin set]}

\* BlockChunkRecvdTracker(size_t data_chunks)
TrackerInit(data_chunks) ==
    /\ data_chunk_recvd_flags = [i \in 0..(data_chunks - 1) |-> FALSE]
    /\ fec_chunks_recvd = {}
    /\ trk_calls = [i \in TrackerIds |-> 0]
    /\ trk_last = [op |-> "none", id |-> 0, ret |-> FALSE]

\* the number of data chunk flags, data_chunk_recvd_flags.size()
TrackerSize == Cardinality(DOMAIN data_chunk_recvd_flags)

\* the record of a tracker call
TrackerCall(op, chunk_id, ret) ==
    /\ trk_last' = [op |-> op, id |-> chunk_id, ret |-> ret]
    /\ trk_calls' = IF op = "CheckPresentAndMarkRecvd"
                      THEN [trk_calls EXCEPT ![chunk_id] = @ + 1] ELSE trk_calls

\* CheckPresentAndMarkRecvd that reports a set member without negating insert
CheckPresentAndMarkRecvdNoNegation(chunk_id) ==
    /\ trk_calls[chunk_id] < MaxCalls
    /\ IF chunk_id < TrackerSize
         THEN IF data_chunk_recvd_flags[chunk_id]
                THEN /\ TrackerCall("CheckPresentAndMarkRecvd", chunk_id, TRUE)
                     /\ UNCHANGED <<data_chunk_recvd_flags, fec_chunks_recvd>>
                ELSE /\ data_chunk_recvd_flags' = [data_chunk_recvd_flags EXCEPT ![chunk_id] = TRUE]
                     /\ TrackerCall("CheckPresentAndMarkRecvd", chunk_id, FALSE)
                     /\ UNCHANGED fec_chunks_recvd
         ELSE \E found \in find_fast(fec_chunks_recvd, chunk_id) :
                IF found
                  THEN /\ TrackerCall("CheckPresentAndMarkRecvd", chunk_id, TRUE)
                       /\ UNCHANGED <<data_chunk_recvd_flags, fec_chunks_recvd>>
                  ELSE \E o \in insert(fec_chunks_recvd, chunk_id) :
                       /\ fec_chunks_recvd' = o.set
                       /\ TrackerCall("CheckPresentAndMarkRecvd", chunk_id, o.second)
                       /\ UNCHANGED data_chunk_recvd_flags
    /\ UNCHANGED notTracker

\* bool BlockChunkRecvdTracker::CheckPresentAndMarkRecvd(uint32_t chunk_id)
CheckPresentAndMarkRecvd(chunk_id) ==
    /\ trk_calls[chunk_id] < MaxCalls
    /\ IF chunk_id < TrackerSize
         THEN IF data_chunk_recvd_flags[chunk_id]
                THEN /\ TrackerCall("CheckPresentAndMarkRecvd", chunk_id, TRUE)
                     /\ UNCHANGED <<data_chunk_recvd_flags, fec_chunks_recvd>>
                ELSE /\ data_chunk_recvd_flags' = [data_chunk_recvd_flags EXCEPT ![chunk_id] = TRUE]
                     /\ TrackerCall("CheckPresentAndMarkRecvd", chunk_id, FALSE)
                     /\ UNCHANGED fec_chunks_recvd
         ELSE \E found \in find_fast(fec_chunks_recvd, chunk_id) :
                IF found
                  THEN /\ TrackerCall("CheckPresentAndMarkRecvd", chunk_id, TRUE)
                       /\ UNCHANGED <<data_chunk_recvd_flags, fec_chunks_recvd>>
                  ELSE \E o \in insert(fec_chunks_recvd, chunk_id) :
                       /\ fec_chunks_recvd' = o.set
                       /\ TrackerCall("CheckPresentAndMarkRecvd", chunk_id, ~o.second)
                       /\ UNCHANGED data_chunk_recvd_flags
    /\ UNCHANGED notTracker

\* CheckPresent that records the id it is asked about
CheckPresentMarks(chunk_id) ==
    /\ IF chunk_id < TrackerSize
         THEN /\ TrackerCall("CheckPresent", chunk_id, data_chunk_recvd_flags[chunk_id])
              /\ data_chunk_recvd_flags' = [data_chunk_recvd_flags EXCEPT ![chunk_id] = TRUE]
              /\ UNCHANGED fec_chunks_recvd
         ELSE \E found \in find_fast(fec_chunks_recvd, chunk_id) :
                /\ TrackerCall("CheckPresent", chunk_id, found)
                /\ fec_chunks_recvd' = fec_chunks_recvd \cup {chunk_id}
                /\ UNCHANGED data_chunk_recvd_flags
    /\ UNCHANGED notTracker

\* bool BlockChunkRecvdTracker::CheckPresent(uint32_t chunk_id) const
CheckPresent(chunk_id) ==
    /\ IF chunk_id < TrackerSize
         THEN TrackerCall("CheckPresent", chunk_id, data_chunk_recvd_flags[chunk_id])
         ELSE \E found \in find_fast(fec_chunks_recvd, chunk_id) :
                TrackerCall("CheckPresent", chunk_id, found)
    /\ UNCHANGED <<data_chunk_recvd_flags, fec_chunks_recvd>>
    /\ UNCHANGED notTracker

\* ----------------------------------------------------------- FECEncoder
\* what a slot of the caller's buffer holds before it is built
GarbageChunk == [j \in 1..FEC_CHUNK_SIZE |-> FieldPrime - 1]

\* the number of output slots, fec_chunks->second.size()
SlotCount == Cardinality(DOMAIN fec_chunks.second)

\* the data chunk count of the encoder's object
DataChunkCount == DIV_CEIL(Len(data), FEC_CHUNK_SIZE)

wh256_encoder_init(obj) == [data |-> obj]

\* The primitive writes the chunk of chunk_id: ret 0 and the bytes written
\* (a final data chunk is shorter than FEC_CHUNK_SIZE), or a non-zero ret
\* for a chunk id it cannot serve.
wh256_encoder_write(st, chunk_id) ==
    IF chunk_id \notin ChunkIds THEN [ret |-> 1, bytes |-> <<>>]
    ELSE IF chunk_id < DIV_CEIL(Len(st.data), FEC_CHUNK_SIZE)
      THEN [ret |-> 0, bytes |-> Slice(st.data, chunk_id)]
      ELSE [ret |-> 0, bytes |-> EncodeChunk(st.data, chunk_id)]

\* FECEncoder::FECEncoder(dataIn, fec_chunksIn), on slots whose ids are 0
FECEncoderInit(slots) ==
    /\ slots >= 1
    /\ Len(data) >= 1
    /\ fec_chunks = [first  |-> [i \in 0..(slots - 1) |-> GarbageChunk],
                     second |-> [i \in 0..(slots - 1) |-> 0]]
    /\ wirehair_encoder = IF DataChunkCount < 2 THEN NULL ELSE wh256_encoder_init(data)
    /\ enc_last = [op |-> "none", idx |-> 0, overwrite |-> FALSE, ret |-> TRUE, wrote |-> FALSE]
    /\ enc_entry = "none"

\* the record of a BuildChunk call; wrote tells whether it built the slot
BuildChunkCall(vector_idx, overwrite, ret, wrote) ==
    [op |-> "BuildChunk", idx |-> vector_idx, overwrite |-> overwrite, ret |-> ret,
     wrote |-> wrote]

\* BuildChunkSkips that leaves every slot alone once it was built
BuildChunkSkipsAlways(vector_idx, overwrite) == fec_chunks.second[vector_idx] # 0

\* BuildChunkSkips that never skips
BuildChunkSkipsNever(vector_idx, overwrite) == FALSE

\* the slot has an identifier and overwrite is false: nothing to build
BuildChunkSkips(vector_idx, overwrite) == ~overwrite /\ fec_chunks.second[vector_idx] # 0

\* BuildChunkIdSequential without the offset
BuildChunkIdSequentialNoOffset(vector_idx) == vector_idx

\* BuildChunkIdSequential that numbers the slots in the order they are built
BuildChunkIdSequentialByOrder(vector_idx) ==
    DataChunkCount + Cardinality({i \in DOMAIN fec_chunks.second : fec_chunks.second[i] # 0})

\* size_t chunk_id = fec_chunk_id + DIV_CEIL(data->size(), FEC_CHUNK_SIZE)
BuildChunkIdSequential(vector_idx) == vector_idx + DataChunkCount

\* The identifiers BuildChunk may give the slot: vector_idx + the data chunk
\* count above CM256_MAX_CHUNKS data chunks, below it any repair chunk id
\* that is not 0 and that no slot carries.
BuildChunkIds(vector_idx) ==
    IF DataChunkCount > CM256_MAX_CHUNKS THEN {BuildChunkIdSequential(vector_idx)}
    ELSE {x \in ChunkIds : /\ x >= DataChunkCount
                           /\ x # 0
                           /\ \A i \in DOMAIN fec_chunks.second : fec_chunks.second[i] # x}

\* BuildChunkTrivial without the memset of the rest of the slot
BuildChunkTrivialNoMemset(vector_idx) ==
    [j \in 1..FEC_CHUNK_SIZE |-> IF j <= Len(data) THEN data[j]
                                 ELSE fec_chunks.first[vector_idx][j]]

\* BuildChunkTrivial without the memcpy of the object
BuildChunkTrivialZeros(vector_idx) == ZeroChunk

\* 1-chunk data: the payload is the object, memcpy'd and zero-filled
BuildChunkTrivial(vector_idx) == ZeroPad(data)

\* what a BuildChunk call does to the slots, and its return value
BuildChunkSlot(vector_idx, overwrite) ==
    /\ vector_idx < SlotCount
    /\ IF BuildChunkSkips(vector_idx, overwrite)
         THEN /\ enc_last' = BuildChunkCall(vector_idx, overwrite, TRUE, FALSE)
              /\ UNCHANGED fec_chunks
         ELSE IF DataChunkCount < 2
         THEN /\ fec_chunks' = [fec_chunks EXCEPT !.first[vector_idx] = BuildChunkTrivial(vector_idx)]
              /\ enc_last' = BuildChunkCall(vector_idx, overwrite, TRUE, TRUE)
         ELSE \E chunk_id \in BuildChunkIds(vector_idx) :
              LET w == wh256_encoder_write(wirehair_encoder, chunk_id)
              IN  IF w.ret # 0
                    THEN /\ enc_last' = BuildChunkCall(vector_idx, overwrite, FALSE, FALSE)
                         /\ UNCHANGED fec_chunks
                    ELSE /\ fec_chunks' = [fec_chunks EXCEPT !.first[vector_idx] = ZeroPad(w.bytes),
                                                             !.second[vector_idx] = chunk_id]
                         /\ enc_last' = BuildChunkCall(vector_idx, overwrite, TRUE, TRUE)

\* bool FECEncoder::BuildChunk(size_t vector_idx, bool overwrite)
BuildChunk(vector_idx, overwrite) ==
    /\ BuildChunkSlot(vector_idx, overwrite)
    /\ enc_entry' = "BuildChunk"
    /\ UNCHANGED wirehair_encoder
    /\ UNCHANGED notEncoder

\* PrefillChunks that builds the first slot
PrefillChunksFirst ==
    /\ BuildChunkSlot(0, FALSE)
    /\ enc_entry' = "PrefillChunks"
    /\ UNCHANGED wirehair_encoder
    /\ UNCHANGED notEncoder

\* bool FECEncoder::PrefillChunks()
PrefillChunks ==
    /\ BuildChunkSlot(SlotCount - 1, FALSE)
    /\ enc_entry' = "PrefillChunks"
    /\ UNCHANGED wirehair_encoder
    /\ UNCHANGED notEncoder

\* the slot was built by BuildChunk
SlotBuilt(vector_idx) ==
    IF DataChunkCount < 2 THEN fec_chunks.first[vector_idx] # GarbageChunk
    ELSE fec_chunks.second[vector_idx] # 0

\* a receiver hands the chunk of a built slot to its Decode Session, under
\* the slot's identifier (under any chunk id for a 1-chunk object)
ProvideBuiltChunk(vector_idx, chunk_id) ==
    /\ vector_idx < SlotCount
    /\ SlotBuilt(vector_idx)
    /\ DataChunkCount >= 2 => chunk_id = fec_chunks.second[vector_idx]
    /\ ProvideChunk(fec_chunks.first[vector_idx], chunk_id)

\* a receiver hands data chunk i of the object to its Decode Session
ProvideDataChunk(i) ==
    /\ i < DataChunkCount
    /\ ProvideChunk(DataChunk(data, i), i)

\* ------------------------------------------- handles of the primitive
\* the handles the constructors obtain, named after the session that did
HandleIds == {"dec", "other", "enc"}

\* Each session holds the handle its constructor obtained, if it obtained
\* one: the constructors do for two data chunks and more.
HandlesInit(dec_made, other_made, enc_made) ==
    handles = [dec   |-> IF dec_made THEN "dec" ELSE "none",
               other |-> IF other_made THEN "other" ELSE "none",
               enc   |-> IF enc_made THEN "enc" ELSE "none",
               made  |-> {h \in HandleIds : \/ h = "dec" /\ dec_made
                                            \/ h = "other" /\ other_made
                                            \/ h = "enc" /\ enc_made},
               frees |-> [h \in HandleIds |-> 0]]

\* if (state) wh256_free(state), for the handle the session holder holds
FreeState(holder) ==
    IF handles[holder] = "none" THEN handles
    ELSE [handles EXCEPT ![holder] = "none", !.frees[handles[holder]] = @ + 1]

\* ------------------------------------------ sessions' lifetime and file
\* a Decode Session was constructed; with_file: its chunks go to a file;
\* encoder: "alive" when an Encode Session was constructed too, or "none"
LifeInit(with_file, encoder) ==
    /\ dec_alive = TRUE
    /\ enc_alive = encoder
    /\ owns_file = with_file
    /\ enc_owns_file = FALSE
    /\ file_exists = with_file
    /\ file_removals = 0

\* void FECDecoder::remove_file()
remove_file ==
    /\ file_exists' = FALSE
    /\ file_removals' = file_removals + 1

\* the object a complete decoding handle holds, its pad cut off
DecodedObject(st) ==
    [j \in 1..st.size |->
        BlockFrom(st.ids, st.blocks, (j - 1) \div FEC_CHUNK_SIZE)[((j - 1) % FEC_CHUNK_SIZE) + 1]]

\* the decoding handle turned into an encoding handle
wirehair_decoder_becomes_encoder(st) == wh256_encoder_init(DecodedObject(st))

\* FECEncoder::FECEncoder(FECDecoder&& decoder, dataIn, fec_chunksIn): the
\* handle and the storage of a complete Decode Session go to the new Encode
\* Session, the Decode Session keeps neither
FECEncoderFromDecoder(slots) ==
    /\ dec_alive /\ enc_alive = "none"
    /\ DecodeReady
    /\ Len(data) >= 1
    /\ fec_chunks' = [first  |-> [i \in 0..(slots - 1) |-> GarbageChunk],
                      second |-> [i \in 0..(slots - 1) |-> 0]]
    /\ wirehair_encoder' = IF chunk_count < 2 THEN NULL
                           ELSE wirehair_decoder_becomes_encoder(state)
    /\ state' = NULL
    /\ owns_file' = FALSE
    /\ enc_owns_file' = owns_file
    /\ enc_alive' = "alive"
    /\ handles' = [handles EXCEPT !.enc = handles.dec, !.dec = "none"]
    /\ UNCHANGED <<chunk_count, chunks_recvd, chunks_sent, decodeComplete, chunk_recvd_flags,
                   tmp_chunk, last, enc_last, enc_entry, dec_alive, file_exists, file_removals>>
    /\ UNCHANGED <<data, trkVars, bfc, other>>

\* the destructor's part for the file: if (owns_file) remove_file()
FECDecoderDestroyFile ==
    IF owns_file THEN remove_file ELSE UNCHANGED <<file_exists, file_removals>>

\* FECDecoder::~FECDecoder(): frees the handle it holds, then sees to the file
FECDecoderDestroy ==
    /\ dec_alive
    /\ dec_alive' = FALSE
    /\ state' = NULL
    /\ handles' = FreeState("dec")
    /\ FECDecoderDestroyFile
    /\ UNCHANGED <<chunk_count, chunks_recvd, chunks_sent, decodeComplete, chunk_recvd_flags,
                   tmp_chunk, last, enc_alive, owns_file, enc_owns_file>>
    /\ UNCHANGED <<data, trkVars, encVars, bfc, other>>

\* FECEncoder::~FECEncoder(): frees the handle
FECEncoderDestroy ==
    /\ enc_alive = "alive"
    /\ enc_alive' = "destroyed"
    /\ wirehair_encoder' = NULL
    /\ handles' = FreeState("enc")
    /\ UNCHANGED <<fec_chunks, enc_last, enc_entry, dec_alive, owns_file, enc_owns_file,
                   file_exists, file_removals>>
    /\ UNCHANGED <<data, decVars, last, trkVars, bfc, other>>

\* ------------------------------------------ the second Decode Session
\* FECDecoder::FECDecoder(data_size, chunks_provided, prng_seed), for the
\* second session
OtherInit(data_size, chunks_provided) ==
    other = [alive |-> TRUE, assigned |-> FALSE,
             chunk_count |-> DIV_CEIL(data_size, FEC_CHUNK_SIZE),
             chunks_recvd |-> 0,
             chunks_sent |-> chunks_provided,
             decodeComplete |-> FALSE,
             chunk_recvd_flags |-> [i \in 0..(chunks_provided - 1) |-> FALSE],
             tmp_chunk |-> ZeroChunk,
             state |-> IF DIV_CEIL(data_size, FEC_CHUNK_SIZE) < 2 THEN NULL
                       ELSE wh256_decoder_init(data_size)]

\* MoveAssignState that leaves the handle with the source as well
MoveAssignStateShared == [handles EXCEPT !.other = handles.dec]

\* state = decoder.state; decoder.state = NULL: who holds which handle then.
\* The handle the target held is not passed to wh256_free.
MoveAssignState == [handles EXCEPT !.other = handles.dec, !.dec = "none"]

\* FECDecoder& FECDecoder::operator=(FECDecoder&& decoder): the second
\* session is assigned the Decode Session, whose vector of flags is left
\* empty by std::move
MoveAssign ==
    /\ dec_alive /\ other.alive /\ ~other.assigned
    /\ other' = [other EXCEPT !.assigned = TRUE,
                              !.chunk_count = chunk_count,
                              !.chunks_recvd = chunks_recvd,
                              !.chunks_sent = chunks_sent,
                              !.decodeComplete = decodeComplete,
                              !.chunk_recvd_flags = chunk_recvd_flags,
                              !.tmp_chunk = tmp_chunk,
                              !.state = state]
    /\ chunk_recvd_flags' = <<>>
    /\ state' = NULL
    /\ handles' = MoveAssignState
    /\ UNCHANGED <<chunk_count, chunks_recvd, chunks_sent, decodeComplete, tmp_chunk, last>>
    /\ UNCHANGED <<data, trkVars, encVars, lifeVars, bfc>>

\* FECDecoder::~FECDecoder() of the second session
FECDecoderDestroyOther ==
    /\ other.alive
    /\ other' = [other EXCEPT !.alive = FALSE, !.state = NULL]
    /\ handles' = FreeState("other")
    /\ UNCHANGED <<data, decVars, last, trkVars, encVars, lifeVars, bfc>>

\* --------------------------------------------------------- assertions
\* DecoderAssertFails that counts a chunk before it stops
DecoderAssertFailsLate(callee, chunk_id) ==
    /\ last' = [op |-> "assert", id |-> chunk_id, chunk |-> ZeroChunk, ret |-> FALSE,
                codec |-> callee, rep |-> 0]
    /\ chunks_recvd' = chunks_recvd + 1
    /\ UNCHANGED <<chunk_count, chunks_sent, decodeComplete, chunk_recvd_flags, tmp_chunk, state>>
    /\ UNCHANGED notDecoder

\* an assert at the head of an operation of the Decode Session fails: the
\* process stops there, the operation named callee has done nothing
DecoderAssertFails(callee, chunk_id) ==
    /\ last' = [op |-> "assert", id |-> chunk_id, chunk |-> ZeroChunk, ret |-> FALSE,
                codec |-> callee, rep |-> 0]
    /\ UNCHANGED decVars
    /\ UNCHANGED notDecoder

\* the assert at the head of BuildChunk fails: the process stops there
EncoderAssertFails(vector_idx, overwrite) ==
    /\ enc_last' = [op |-> "assert", idx |-> vector_idx, overwrite |-> overwrite,
                    ret |-> FALSE, wrote |-> FALSE]
    /\ UNCHANGED <<fec_chunks, wirehair_encoder, enc_entry>>
    /\ UNCHANGED notEncoder

\* an assert has failed: the process has stopped
Aborted == last.op = "assert" \/ enc_last.op = "assert"

\* ProvideChunk called with any chunk id: assert(chunk_id < chunks_sent)
ProvideChunkAsserted(chunk, chunk_id) ==
    IF chunk_id < chunks_sent THEN ProvideChunk(chunk, chunk_id)
    ELSE DecoderAssertFails("ProvideChunk", chunk_id)

\* HasChunk called with any chunk id: assert(chunk_id < chunks_sent), then
\* the answer, nothing of the session being changed
HasChunkAsserted(chunk_id) ==
    IF chunk_id < chunks_sent
      THEN /\ last' = [op |-> "HasChunk", id |-> chunk_id, chunk |-> ZeroChunk,
                       ret |-> HasChunk(chunk_id), codec |-> "none", rep |-> 0]
           /\ UNCHANGED decVars
           /\ UNCHANGED notDecoder
      ELSE DecoderAssertFails("HasChunk", chunk_id)

\* GetDataPtr called at any time with any chunk id: assert(DecodeReady()),
\* assert(chunk_id < chunk_count)
GetDataPtrAsserted(chunk_id) ==
    IF DecodeReady /\ chunk_id < chunk_count THEN GetDataPtr(chunk_id)
    ELSE DecoderAssertFails("GetDataPtr", chunk_id)

\* BuildChunk called with any slot index: assert(vector_idx < slots)
BuildChunkAsserted(vector_idx, overwrite) ==
    IF vector_idx < SlotCount THEN BuildChunk(vector_idx, overwrite)
    ELSE EncoderAssertFails(vector_idx, overwrite)

\* --------------------------------------------------- BuildFECChunks
\* the largest number of slots BuildFECChunks is handed: enough of them for
\* the primitive to run out of chunk ids before the last slot
MaxBatchSlots == MaxChunksSent + MaxSlots - MaxChunkCount + 2

\* BuildFECChunksAfter that goes on with the next slot after a failure
BuildFECChunksAfterIgnoresFailure(ok) ==
    IF bfc.i + 1 < SlotCount THEN [i |-> bfc.i + 1, ret |-> "running"]
    ELSE [i |-> bfc.i + 1, ret |-> IF ok THEN "true" ELSE "false"]

\* The loop of BuildFECChunks after enc.BuildChunk(i) returned ok: return
\* false, go on with slot i + 1, or return true after the last slot.
BuildFECChunksAfter(ok) ==
    IF ~ok THEN [i |-> bfc.i, ret |-> "false"]
    ELSE IF bfc.i + 1 < SlotCount THEN [i |-> bfc.i + 1, ret |-> "running"]
    ELSE [i |-> bfc.i + 1, ret |-> "true"]

\* bool BuildFECChunks(data, fec_chunks), one turn of its loop; enc, the
\* Encode Session it constructed, is destroyed when it returns
BuildFECChunks ==
    /\ bfc.ret = "running"
    /\ BuildChunkSlot(bfc.i, FALSE)
    /\ enc_entry' = "BuildFECChunks"
    /\ bfc' = BuildFECChunksAfter(enc_last'.ret)
    /\ IF bfc'.ret = "running"
         THEN UNCHANGED <<wirehair_encoder, enc_alive, handles>>
         ELSE /\ wirehair_encoder' = NULL
              /\ enc_alive' = "destroyed"
              /\ handles' = FreeState("enc")
    /\ UNCHANGED <<dec_alive, owns_file, enc_owns_file, file_exists, file_removals>>
    /\ UNCHANGED <<data, decVars, last, trkVars, other>>

\* the Decode Session still has its state: it was neither destroyed nor
\* moved into an Encode Session
DecoderUsable == dec_alive /\ enc_alive = "none"

\* -------------------------------------------------- idle components
DecoderIdle ==
    /\ data = <<>>
    /\ FECDecoderInit(0, 1)
    /\ last = NoCall

TrackerIdle == TrackerInit(0)

EncoderIdle ==
    /\ fec_chunks = [first |-> <<>>, second |-> <<>>]
    /\ wirehair_encoder = NULL
    /\ enc_last = [op |-> "none", idx |-> 0, overwrite |-> FALSE, ret |-> TRUE, wrote |-> FALSE]
    /\ enc_entry = "none"

\* BuildFECChunks was not called
BatchIdle == bfc = [i |-> 0, ret |-> "none"]

\* there is no second Decode Session
OtherIdle ==
    other = [alive |-> FALSE, assigned |-> FALSE, chunk_count |-> 0, chunks_recvd |-> 0,
             chunks_sent |-> 0, decodeComplete |-> FALSE, chunk_recvd_flags |-> <<>>,
             tmp_chunk |-> ZeroChunk, state |-> NULL]

\* ------------------------------------------- a Decode Session being fed
Init ==
    /\ data \in ObjectPool
    /\ \E chunks_provided \in 1..MaxChunksSent : FECDecoderInit(Len(data), chunks_provided)
    /\ last = NoCall
    /\ TrackerIdle
    /\ EncoderIdle
    /\ LifeInit(FALSE, "none")
    /\ BatchIdle
    /\ OtherIdle
    /\ HandlesInit(chunk_count >= 2, FALSE, FALSE)

Next ==
    \/ \E chunk_id \in ChunkIds : \E chunk \in ChunkInputs(chunk_id) :
         ProvideChunk(chunk, chunk_id)
    \/ \E chunk_id \in ChunkIds : GetDataPtr(chunk_id)

Spec == Init /\ [][Next]_vars

\* ------------------------------------------------ a tracker being used
InitTracker ==
    /\ DecoderIdle
    /\ EncoderIdle
    /\ LifeInit(FALSE, "none")
    /\ BatchIdle
    /\ OtherIdle
    /\ HandlesInit(FALSE, FALSE, FALSE)
    /\ \E data_chunks \in 0..MaxChunkCount : TrackerInit(data_chunks)

NextTracker ==
    \/ \E chunk_id \in TrackerIds : CheckPresentAndMarkRecvd(chunk_id)
    \/ \E chunk_id \in TrackerIds : CheckPresent(chunk_id)

SpecTracker == InitTracker /\ [][NextTracker]_vars

\* ------------- an Encode Session building chunks for a Decode Session
InitRoundTrip ==
    /\ data \in ObjectPool
    /\ \E slots \in 1..MaxSlots : FECEncoderInit(slots)
    /\ FECDecoderInit(Len(data), Cardinality(ChunkIds))
    /\ last = NoCall
    /\ TrackerIdle
    /\ LifeInit(FALSE, "alive")
    /\ BatchIdle
    /\ OtherIdle
    /\ HandlesInit(chunk_count >= 2, FALSE, DataChunkCount >= 2)

NextRoundTrip ==
    \/ \E vector_idx \in 0..(MaxSlots - 1) : BuildChunk(vector_idx, FALSE)
    \/ \E vector_idx \in 0..(MaxSlots - 1) : \E chunk_id \in ChunkIds :
         ProvideBuiltChunk(vector_idx, chunk_id)
    \/ \E i \in 0..(MaxChunkCount - 1) : ProvideDataChunk(i)
    \/ \E chunk_id \in ChunkIds : GetDataPtr(chunk_id)

SpecRoundTrip == InitRoundTrip /\ [][NextRoundTrip]_vars

\* --------------------------------- an Encode Session building its slots
InitEncoder ==
    /\ data \in ObjectPool
    /\ \E slots \in 1..MaxSlots : FECEncoderInit(slots)
    /\ FECDecoderInit(0, 1)
    /\ last = NoCall
    /\ TrackerIdle
    /\ LifeInit(FALSE, "alive")
    /\ BatchIdle
    /\ OtherIdle
    /\ HandlesInit(FALSE, FALSE, DataChunkCount >= 2)

NextEncoder ==
    \/ \E vector_idx \in 0..(MaxSlots - 1) : \E overwrite \in BOOLEAN :
         BuildChunk(vector_idx, overwrite)
    \/ PrefillChunks

SpecEncoder == InitEncoder /\ [][NextEncoder]_vars

\* ------- two Decode Sessions, one fed, move-assigned to the other
\* the sizes the second session is constructed with
OtherSizes == {n * FEC_CHUNK_SIZE : n \in 0..CM256_MAX_CHUNKS}

InitMove ==
    /\ data \in ObjectPool
    /\ FECDecoderInit(Len(data), MaxChunksSent)
    /\ last = NoCall
    /\ TrackerIdle
    /\ EncoderIdle
    /\ LifeInit(FALSE, "none")
    /\ BatchIdle
    /\ \E data_size \in OtherSizes : OtherInit(data_size, MaxChunksSent)
    /\ HandlesInit(chunk_count >= 2, other.chunk_count >= 2, FALSE)

NextMove ==
    \/ \E chunk_id \in ChunkIds :
         /\ dec_alive /\ ~other.assigned
         /\ ProvideChunk(EncodeChunk(data, chunk_id), chunk_id)
    \/ MoveAssign
    \/ FECDecoderDestroy
    \/ FECDecoderDestroyOther

SpecMove == InitMove /\ [][NextMove]_vars

\* ------------- sessions called with arguments of any kind, at any time
InitContract ==
    /\ data \in ObjectPool
    /\ \E slots \in 1..MaxSlots : FECEncoderInit(slots)
    /\ FECDecoderInit(Len(data), MaxChunksSent)
    /\ last = NoCall
    /\ TrackerIdle
    /\ LifeInit(FALSE, "alive")
    /\ BatchIdle
    /\ OtherIdle
    /\ HandlesInit(chunk_count >= 2, FALSE, DataChunkCount >= 2)

NextContract ==
    \/ \E chunk_id \in ChunkIds :
         ~Aborted /\ ProvideChunkAsserted(EncodeChunk(data, chunk_id), chunk_id)
    \/ \E chunk_id \in ChunkIds : ~Aborted /\ HasChunkAsserted(chunk_id)
    \/ \E chunk_id \in ChunkIds : ~Aborted /\ GetDataPtrAsserted(chunk_id)
    \/ \E vector_idx \in 0..MaxSlots : ~Aborted /\ BuildChunkAsserted(vector_idx, FALSE)

SpecContract == InitContract /\ [][NextContract]_vars

\* ------------------------------------- BuildFECChunks filling a buffer
\* the repair chunk ids there are for the object
RepairIds == {x \in ChunkIds : x >= DataChunkCount}

InitBatch ==
    /\ data \in ObjectPool
    /\ \E slots \in 1..MaxBatchSlots :
         /\ (2 <= DataChunkCount /\ DataChunkCount <= CM256_MAX_CHUNKS)
              => slots <= Cardinality(RepairIds)
         /\ FECEncoderInit(slots)
    /\ FECDecoderInit(0, 1)
    /\ last = NoCall
    /\ TrackerIdle
    /\ LifeInit(FALSE, "alive")
    /\ bfc = [i |-> 0, ret |-> "running"]
    /\ OtherIdle
    /\ HandlesInit(FALSE, FALSE, DataChunkCount >= 2)

NextBatch == BuildFECChunks

SpecBatch == InitBatch /\ [][NextBatch]_vars

\* ------ a Decode Session fed, moved into an Encode Session, destroyed
InitTransfer ==
    /\ data \in ObjectPool
    /\ FECDecoderInit(Len(data), MaxChunksSent)
    /\ last = NoCall
    /\ TrackerIdle
    /\ EncoderIdle
    /\ \E with_file \in BOOLEAN : LifeInit(with_file, "none")
    /\ BatchIdle
    /\ OtherIdle
    /\ HandlesInit(chunk_count >= 2, FALSE, FALSE)

NextTransfer ==
    \/ \E chunk_id \in ChunkIds :
         DecoderUsable /\ ProvideChunk(EncodeChunk(data, chunk_id), chunk_id)
    \/ \E slots \in 1..MaxSlots : FECEncoderFromDecoder(slots)
    \/ \E vector_idx \in 0..(MaxSlots - 1) :
         enc_alive = "alive" /\ BuildChunk(vector_idx, FALSE)
    \/ FECDecoderDestroy
    \/ FECEncoderDestroy

SpecTransfer == InitTransfer /\ [][NextTransfer]_vars

\* ---------------------------------------------------- claims on Spec
\* the chunk ids the session has recorded as provided
Provided == {i \in 0..(chunks_sent - 1) : chunk_recvd_flags[i]}

\* what a caller can read back from the session: the counter, readiness,
\* and for each data chunk whether it can be fetched and what it holds
Readable == [recvd |-> chunks_recvd, ready |-> DecodeReady,
             chunks |-> [i \in 0..(MaxChunkCount - 1) |->
                           IF i < chunk_count /\ GetDataPtrPermitted(i)
                             THEN GetDataPtrResult(i) ELSE NULL]]

\* C1: a ProvideChunk call that follows a ProvideChunk call with the same
\* chunk id, whatever bytes it carries, changes neither ChunksReceived(),
\* DecodeReady() nor any data chunk that can be fetched.
C1_ProvideChunkIdempotent ==
    [][(last'.op = "ProvideChunk" /\ last'.rep = 2) => Readable' = Readable]_vars

\* C1 happens: the second call in a row for an id, with other bytes than the
\* first, on a session that is still active
C1_Witness ==
    /\ last.op = "ProvideChunk" /\ last.rep = 2
    /\ ~decodeComplete /\ chunk_count >= 2
    /\ last.chunk # state.blocks[last.id]

\* every chunk counted as received was taken in by the primitive
NoChunkRefused == chunk_count >= 2 => state.n = chunks_recvd

C3_TrivialAsStated ==
    [][(chunk_count < 2 /\ last.op = "none" /\ last'.op = "ProvideChunk")
         => (DecodeReady' /\ GetDataPtrPermitted(0)' /\ GetDataPtrResult(0)' = last'.chunk)]_vars

\* C3 amended: on a fresh session with chunk_count < 2 one ProvideChunk makes
\* DecodeReady() true; with chunk_count = 1 GetDataPtr(0) is permitted and
\* returns the bytes of that chunk, with chunk_count = 0 (an empty object)
\* no GetDataPtr call is permitted.
C3_TrivialCompletion ==
    [][(chunk_count < 2 /\ last.op = "none" /\ last'.op = "ProvideChunk")
         => /\ DecodeReady'
            /\ chunk_count = 1 => (GetDataPtrPermitted(0)' /\ GetDataPtrResult(0)' = last'.chunk)
            /\ chunk_count = 0 => \A i \in ChunkIds : ~GetDataPtrPermitted(i)']_vars

\* C3 happens: a one-chunk session completed by its first chunk, handed in
\* under a chunk id other than 0
C3_Witness ==
    /\ chunk_count = 1 /\ chunks_recvd = 1 /\ DecodeReady
    /\ last.op = "ProvideChunk" /\ last.rep = 1 /\ last.id > 0
    /\ Provided = {last.id}
    /\ GetDataPtrPermitted(0) /\ GetDataPtrResult(0) = last.chunk

\* C4: HasChunk(id) is true right after ProvideChunk(_, id) returned true,
\* once true it stays true, and it is true for every id once DecodeReady().
C4_HasChunkMonotone ==
    /\ [](last.op = "ProvideChunk" /\ last.ret => HasChunk(last.id))
    /\ [](DecodeReady => \A id \in 0..(chunks_sent - 1) : HasChunk(id))
    /\ [][\A id \in 0..(chunks_sent - 1) : HasChunk(id) => HasChunk(id)']_vars

\* C4 happens: a session that is not complete has a chunk whose id it
\* reports while it does not report another
C4_Witness ==
    /\ ~DecodeReady
    /\ last.op = "ProvideChunk" /\ HasChunk(last.id)
    /\ \E id \in 0..(chunks_sent - 1) : ~HasChunk(id)
    /\ Cardinality(Provided) >= 2

\* C8: once DecodeReady() is true it stays true, and a ProvideChunk call
\* made then, for a seen or an unseen id, returns true and changes neither
\* ChunksReceived(), the received flags, the chunks held by the primitive,
\* the scratch chunk, nor what GetDataPtr returns.
C8_CompleteIsInert ==
    [][DecodeReady =>
         /\ DecodeReady'
         /\ last'.op = "ProvideChunk" =>
              /\ last'.ret
              /\ UNCHANGED <<chunks_recvd, chunk_recvd_flags, state, tmp_chunk>>
              /\ Readable' = Readable]_vars

\* C8 happens: a complete coded session was handed a chunk whose id it had
\* not seen
C8_Witness ==
    /\ DecodeReady /\ chunk_count >= 2
    /\ last.op = "ProvideChunk" /\ last.codec = "none"
    /\ ~chunk_recvd_flags[last.id]

\* the step is a ProvideChunk call in which the primitive refused the chunk
ChunkRefusedStep == last' # last /\ last'.op = "ProvideChunk" /\ last'.codec = "reject"

\* C9 as stated: a ProvideChunk call in which the primitive refuses the
\* chunk leaves DecodeReady(), ChunksReceived() and HasChunk(id) as before.
C9_RejectionAsStated ==
    [][ChunkRefusedStep =>
         /\ DecodeReady' = DecodeReady
         /\ chunks_recvd' = chunks_recvd
         /\ \A id \in 0..(chunks_sent - 1) :
              id = last'.id => HasChunk(id)' = HasChunk(id)]_vars

\* C9 amended: a ProvideChunk call in which the primitive refuses the chunk
\* returns true, leaves DecodeReady() false and the chunks held by the
\* primitive and the scratch chunk as they were, but records the id:
\* ChunksReceived() grows by one and HasChunk(id) turns true.  A later
\* ProvideChunk with that id, good chunk or not, is a no-op, and one with an
\* id not yet seen is still ingested.
C9_RejectionMarksChunk ==
    [][/\ ChunkRefusedStep =>
            /\ last'.ret
            /\ ~DecodeReady /\ ~DecodeReady'
            /\ state' = state /\ tmp_chunk' = tmp_chunk
            /\ chunks_recvd' = chunks_recvd + 1
            /\ \A id \in 0..(chunks_sent - 1) :
                 id = last'.id => (~HasChunk(id) /\ HasChunk(id)')
       /\ (last.codec = "reject" /\ last'.op = "ProvideChunk" /\ last'.id = last.id) =>
            /\ last'.codec = "none"
            /\ UNCHANGED decVars
       /\ (~NoChunkRefused /\ ~DecodeReady /\ last' # last /\ last'.op = "ProvideChunk"
             /\ ~chunk_recvd_flags[last'.id]) =>
            /\ last'.codec # "none"
            /\ chunk_recvd_flags'[last'.id]
            /\ chunks_recvd' = chunks_recvd + 1
            /\ last'.codec # "reject" => (state'.n = state.n + 1 /\ last'.id \in state'.ids)]_vars

\* C9 happens: after a refusal the good chunk with the same id was handed in
\* and dropped, the session being still active
C9_Witness ==
    /\ chunk_count >= 2 /\ ~DecodeReady /\ ~NoChunkRefused
    /\ last.op = "ProvideChunk" /\ last.rep = 2 /\ last.codec = "none"
    /\ last.chunk = EncodeChunk(data, last.id)
    /\ last.id \notin state.ids
    /\ HasChunk(last.id)

\* C15 as stated, its bounds: GetChunksRcvd() is the number of chunk ids
\* recorded, at most 1 with fewer than 2 data chunks and at most chunk_count
\* with 2 to CM256_MAX_CHUNKS data chunks.
C15_CounterBoundsAsStated ==
    /\ chunks_recvd = Cardinality(Provided)
    /\ chunk_count < 2 => chunks_recvd <= 1
    /\ (2 <= chunk_count /\ chunk_count <= CM256_MAX_CHUNKS) => chunks_recvd <= chunk_count

\* C15 amended: GetChunksRcvd() is the number of chunk ids recorded; it is at
\* most 1 with fewer than 2 data chunks; with 2 to CM256_MAX_CHUNKS data
\* chunks the chunks the primitive took in are at most chunk_count, and so is
\* GetChunksRcvd() as long as the primitive refused no chunk, each refused
\* chunk being counted too.  A ProvideChunk call made for a recorded id or
\* on a complete session does not change it.
C15_ReceivedCounter ==
    /\ [](/\ chunks_recvd = Cardinality(Provided)
          /\ chunk_count < 2 => chunks_recvd <= 1
          /\ (2 <= chunk_count /\ chunk_count <= CM256_MAX_CHUNKS) =>
               /\ state.n <= chunk_count
               /\ state.n <= chunks_recvd
               /\ NoChunkRefused => chunks_recvd <= chunk_count)
    /\ [][(last'.op = "ProvideChunk" /\ (decodeComplete \/ chunk_recvd_flags[last'.id]))
            => chunks_recvd' = chunks_recvd]_vars

\* C15 happens: with 2 to CM256_MAX_CHUNKS data chunks a chunk was refused
\* and counted, the counter went above chunk_count, and the latest call, for
\* a recorded id, left it there
C15_Witness ==
    /\ 2 <= chunk_count /\ chunk_count <= CM256_MAX_CHUNKS
    /\ ~NoChunkRefused
    /\ chunks_recvd = chunk_count + 1 /\ Cardinality(Provided) = chunk_count + 1
    /\ last.op = "ProvideChunk" /\ last.codec = "none" /\ last.rep = 1
    /\ chunk_recvd_flags[last.id]

\* ------------------------------------------------ claims on SpecTracker
\* C6 as stated: for every tracker and every chunk id,
\* CheckPresentAndMarkRecvd(id) returns false on the first call for the id
\* and true on every later one.
C6_CheckAndSetAsStated ==
    trk_last.op = "CheckPresentAndMarkRecvd"
        => (trk_last.ret <=> trk_calls[trk_last.id] > 1)

\* the id is kept by the flags, or is a value the set can hold
Trackable(chunk_id) == chunk_id < TrackerSize \/ ~ChunkIdIsNull(chunk_id)

\* C6 amended: for every tracker and every chunk id other than the null
\* value 0 falling to the set (which happens in a tracker of no data
\* chunks), CheckPresentAndMarkRecvd(id) returns false on the first call for
\* the id and true on every later one, whatever was marked in between.
C6_CheckAndSet ==
    (trk_last.op = "CheckPresentAndMarkRecvd" /\ Trackable(trk_last.id))
        => (trk_last.ret <=> trk_calls[trk_last.id] > 1)

\* C6 happens: a third call for an id of the set returned true, an id of the
\* flags having been marked twice and another id of the set once
C6_Witness ==
    /\ trk_last.op = "CheckPresentAndMarkRecvd" /\ trk_last.ret
    /\ trk_last.id >= TrackerSize /\ trk_calls[trk_last.id] = MaxCalls
    /\ \E i \in TrackerIds : i < TrackerSize /\ trk_calls[i] >= 2
    /\ \E i \in TrackerIds : i >= TrackerSize /\ i # trk_last.id /\ trk_calls[i] = 1

\* C18 as stated: for every tracker and id, CheckPresent(id) returns true
\* exactly when CheckPresentAndMarkRecvd(id) was called before, and changes
\* nothing of the tracker.
C18_CheckAsStated ==
    [][trk_last'.op = "CheckPresent" =>
         /\ trk_last'.ret <=> trk_calls[trk_last'.id] > 0
         /\ UNCHANGED <<data_chunk_recvd_flags, fec_chunks_recvd, trk_calls>>]_vars

\* C18 amended: for every tracker and every id other than the null value 0
\* falling to the set, CheckPresent(id) returns true exactly when
\* CheckPresentAndMarkRecvd(id) was called before; for every id it changes
\* nothing of the tracker.
C18_CheckReadOnly ==
    [][trk_last'.op = "CheckPresent" =>
         /\ Trackable(trk_last'.id) => (trk_last'.ret <=> trk_calls[trk_last'.id] > 0)
         /\ UNCHANGED <<data_chunk_recvd_flags, fec_chunks_recvd, trk_calls>>]_vars

\* C18 happens: CheckPresent returned true for an id of the set that had been
\* marked, while an id of the flags and another id of the set are not marked
C18_Witness ==
    /\ trk_last.op = "CheckPresent" /\ trk_last.ret
    /\ trk_last.id >= TrackerSize /\ trk_calls[trk_last.id] = 1
    /\ \E i \in TrackerIds : i < TrackerSize /\ trk_calls[i] = 0
    /\ \E i \in TrackerIds : i >= TrackerSize /\ ~ChunkIdIsNull(i) /\ trk_calls[i] = 0

\* ---------------------------------------------- claims on SpecRoundTrip
\* C5 as stated: once chunk_count distinct chunks of the object, data chunks
\* or chunks built by the Encode Session, were provided, the session is
\* complete and GetDataPtr(i) is the i-th slice of the object, zero-padded.
C5_RoundTripAsStated ==
    Cardinality(Provided) >= chunk_count
        => /\ DecodeReady
           /\ \A i \in 0..(chunk_count - 1) :
                GetDataPtrPermitted(i) /\ GetDataPtrResult(i) = DataChunk(data, i)

\* C5 amended: with at most CM256_MAX_CHUNKS data chunks the session is
\* complete once chunk_count distinct chunks were provided; with more data
\* chunks it may need further chunks.  Whenever it is complete, GetDataPtr(i)
\* is the i-th slice of the object, the final slice zero-padded.
C5_RoundTrip ==
    /\ (chunk_count <= CM256_MAX_CHUNKS /\ Cardinality(Provided) >= chunk_count) => DecodeReady
    /\ DecodeReady =>
         \A i \in 0..(chunk_count - 1) :
            GetDataPtrPermitted(i) /\ GetDataPtrResult(i) = DataChunk(data, i)

\* C5 happens: an object with a padded final slice was rebuilt from a built
\* repair chunk and a data chunk, the repair chunk standing for the slice
\* that needs the pad
C5_Witness ==
    /\ chunk_count = 2 /\ Len(data) % FEC_CHUNK_SIZE # 0
    /\ DecodeReady
    /\ \E i \in Provided : i >= chunk_count
    /\ 0 \in Provided /\ 1 \notin Provided
    /\ GetDataPtrPermitted(1) /\ GetDataPtrResult(1) = DataChunk(data, 1)

C17_ZeroPadded ==
    [][(enc_last'.op = "BuildChunk" /\ enc_last'.wrote) =>
         LET idx == enc_last'.idx
             payload == fec_chunks'.first[idx]
             w == wh256_encoder_write(wirehair_encoder, fec_chunks'.second[idx])
         IN  /\ DOMAIN payload = 1..FEC_CHUNK_SIZE
             /\ DataChunkCount < 2 =>
                  /\ \A j \in 1..FEC_CHUNK_SIZE :
                       payload[j] = IF j <= Len(data) THEN data[j] ELSE 0
                  /\ \A i \in DOMAIN fec_chunks.first :
                       fec_chunks.first[i] # GarbageChunk => fec_chunks.first[i] = payload
             /\ DataChunkCount >= 2 =>
                  \A j \in 1..FEC_CHUNK_SIZE :
                       payload[j] = IF j <= Len(w.bytes) THEN w.bytes[j] ELSE 0]_vars

\* C17 happens: every slot was built for an object shorter than a chunk and
\* ends in a zero byte
C17_Witness ==
    /\ Len(data) < FEC_CHUNK_SIZE
    /\ SlotCount = MaxSlots
    /\ enc_last.op = "BuildChunk" /\ enc_last.wrote
    /\ \A i \in DOMAIN fec_chunks.first :
         /\ fec_chunks.first[i] # GarbageChunk
         /\ fec_chunks.first[i][1] = data[1]
         /\ fec_chunks.first[i][FEC_CHUNK_SIZE] = 0

\* C20: a BuildChunk call for slot i leaves the object and the payload and
\* identifier of every other slot as they were; PrefillChunks() is such a
\* call for the last slot, so that on a fresh Encode Session it leaves every
\* other slot unbuilt, its identifier 0.
C20_OwnSlotOnly ==
    [][enc_last'.op = "BuildChunk" =>
         /\ data' = data
         /\ DOMAIN fec_chunks'.second = DOMAIN fec_chunks.second
         /\ \A i \in DOMAIN fec_chunks.second :
              i # enc_last'.idx => /\ fec_chunks'.second[i] = fec_chunks.second[i]
                                   /\ fec_chunks'.first[i] = fec_chunks.first[i]
         /\ enc_entry' = "PrefillChunks" =>
              /\ enc_last'.idx = SlotCount - 1
              /\ enc_entry = "none" =>
                   \A i \in DOMAIN fec_chunks.second :
                       i # SlotCount - 1 => /\ fec_chunks'.second[i] = 0
                                            /\ fec_chunks'.first[i] = GarbageChunk]_vars

\* C20 happens: PrefillChunks() built the last slot of a fresh Encode
\* Session of several slots
C20_Witness ==
    /\ enc_entry = "PrefillChunks" /\ enc_last.op = "BuildChunk" /\ enc_last.wrote
    /\ SlotCount = MaxSlots /\ enc_last.idx = SlotCount - 1
    /\ DataChunkCount >= 2
    /\ fec_chunks.second[SlotCount - 1] # 0
    /\ \A i \in 0..(SlotCount - 2) :
         fec_chunks.second[i] = 0 /\ fec_chunks.first[i] = GarbageChunk

\* -------------------------------------------------- claims on SpecBatch
\* C12: BuildFECChunks calls BuildChunk for slot 0, 1, ... in this order,
\* without overwrite; while it runs exactly the slots below i are built;
\* when it returned true every slot is built; when it returned false the
\* call for slot i had failed, the slots below i are built and slot i and
\* those after it are not; it makes no call after it returned.
C12_BatchAllOrFail ==
    /\ [](bfc.ret = "running" =>
            /\ \A i \in DOMAIN fec_chunks.second : SlotBuilt(i) <=> i < bfc.i
            /\ enc_last.ret)
    /\ [](bfc.ret = "true" =>
            /\ \A i \in DOMAIN fec_chunks.second : SlotBuilt(i)
            /\ enc_last.ret /\ bfc.i = SlotCount)
    /\ [](bfc.ret = "false" =>
            /\ ~enc_last.ret /\ enc_last.idx = bfc.i
            /\ \A i \in DOMAIN fec_chunks.second : SlotBuilt(i) <=> i < bfc.i)
    /\ [][/\ bfc.ret = "running"
           /\ enc_last'.op = "BuildChunk" /\ enc_last'.idx = bfc.i /\ ~enc_last'.overwrite
           /\ bfc'.ret = "false" <=> ~enc_last'.ret]_vars

\* C12 happens: BuildFECChunks returned false at a slot that is neither the
\* first nor the last
C12_Witness ==
    /\ bfc.ret = "false"
    /\ 0 < bfc.i /\ bfc.i < SlotCount - 1
    /\ SlotBuilt(bfc.i - 1) /\ ~SlotBuilt(SlotCount - 1)

\* ----------------------------------------------- claims on SpecContract
\* C13: a ProvideChunk or HasChunk call with a chunk id that is not below
\* chunks_sent, a GetDataPtr call made before DecodeReady() or with a chunk
\* id that is not below chunk_count, and a BuildChunk call for a slot that
\* is not there, each stop at an assert: no such call is carried out, the
\* stop leaves the flags, the counter, the completion flag, the handle, the
\* scratch chunk and the slots as they were, and nothing is done after it.
C13_ContractViolations ==
    /\ [](last.op \in {"ProvideChunk", "HasChunk"} => last.id < chunks_sent)
    /\ [](last.op = "GetDataPtr" => (DecodeReady /\ last.id < chunk_count))
    /\ [](enc_last.op = "BuildChunk" => enc_last.idx < SlotCount)
    /\ [][~Aborted]_vars
    /\ [][last'.op = "assert" =>
            /\ UNCHANGED <<decVars, fec_chunks, wirehair_encoder>>
            /\ last'.codec \in {"ProvideChunk", "HasChunk"} => ~(last'.id < chunks_sent)
            /\ last'.codec = "GetDataPtr" => ~(DecodeReady /\ last'.id < chunk_count)]_vars
    /\ [][enc_last'.op = "assert" =>
            /\ UNCHANGED <<decVars, fec_chunks, wirehair_encoder>>
            /\ ~(enc_last'.idx < SlotCount)]_vars

\* C13 happens: GetDataPtr was called for a data chunk of a session that had
\* chunks but was not complete, a slot being built
C13_Witness ==
    /\ last.op = "assert" /\ last.codec = "GetDataPtr"
    /\ last.id < chunk_count /\ ~DecodeReady /\ chunks_recvd >= 1
    /\ \E i \in DOMAIN fec_chunks.second : fec_chunks.second[i] # 0

\* --------------------------------------------------- claims on SpecMove
\* the members of the Decode Session, as a record
MainSession ==
    [chunk_count |-> chunk_count, chunks_recvd |-> chunks_recvd, chunks_sent |-> chunks_sent,
     decodeComplete |-> decodeComplete, chunk_recvd_flags |-> chunk_recvd_flags,
     tmp_chunk |-> tmp_chunk]

\* what a caller reads from a session s: GetChunkCount(), GetChunksRcvd(),
\* DecodeReady(), HasChunk(id) for every id, and GetDataPtr(0) of a complete
\* session of one data chunk
SessionView(s) ==
    [count |-> s.chunk_count, recvd |-> s.chunks_recvd, ready |-> s.decodeComplete,
     has   |-> [id \in 0..(s.chunks_sent - 1) |-> s.decodeComplete \/ s.chunk_recvd_flags[id]],
     chunk |-> IF s.chunk_count = 1 /\ s.decodeComplete THEN s.tmp_chunk ELSE ZeroChunk]

\* C14: no handle is passed to wh256_free twice, none that was not obtained,
\* and once both sessions are destroyed every handle a constructor obtained
\* was passed to wh256_free once.
C14_HandleFreedOnce ==
    /\ \A h \in HandleIds : handles.frees[h] <= 1
    /\ \A h \in HandleIds : handles.frees[h] >= 1 => h \in handles.made
    /\ (~dec_alive /\ ~other.alive) => \A h \in handles.made : handles.frees[h] = 1

\* C19: operator= gives the target what a caller read from the source just
\* before, GetChunkCount(), GetChunksRcvd(), DecodeReady(), every
\* HasChunk(id) and GetDataPtr(0) of a one-chunk session, and the source's
\* handle; the source holds no handle then, and its destruction afterwards
\* changes nothing of the target and does not free the handle the target
\* holds.
C19_MoveTransfers ==
    [][/\ (~other.assigned /\ other'.assigned) =>
            /\ SessionView(other') = SessionView(MainSession)
            /\ other'.state = state
            /\ handles'.other = handles.dec
            /\ state' = NULL /\ handles'.dec = "none"
       /\ (other.assigned /\ dec_alive /\ ~dec_alive') =>
            /\ other' = other
            /\ handles'.other = handles.other
            /\ handles' = handles]_vars

\* C19 happens: the source was destroyed after operator= had given its
\* chunks and its handle to the target, which holds the handle unfreed
C19_Witness ==
    /\ other.assigned /\ other.alive /\ ~dec_alive
    /\ other.chunk_count >= 2 /\ other.chunks_recvd >= 2
    /\ \E id \in 0..(other.chunks_sent - 1) : ~SessionView(other).has[id]
    /\ handles.other = "dec" /\ handles.frees["dec"] = 0

\* ----------------------------------------------- claims on SpecTransfer
\* the backing file was handed to the Encode Session and both sessions are
\* destroyed
TransferredAndDestroyed == enc_owns_file /\ ~dec_alive /\ enc_alive = "destroyed"

\* C7: after the transfer, destroying the Decode Session leaves the backing
\* file in place, destroying the Encode Session afterwards deletes it, once,
\* and at most one session owns the file.
C7_FileOwnershipTransfer ==
    /\ (enc_owns_file /\ ~dec_alive /\ enc_alive = "alive") => (file_exists /\ file_removals = 0)
    /\ TransferredAndDestroyed => (~file_exists /\ file_removals = 1)
    /\ ~(owns_file /\ enc_owns_file)

====
